---- MODULE Spec2Model ----
(***************************************************************************)
(* WarpModel of predict.ipynb: the export wrapper around a YOLOv8          *)
(* segmentation network.  __init__ copies, freezes and fuses the loaded    *)
(* network and configures its modules for export; forward calls the        *)
(* network, moves the channel axis last and inserts a channel of ones      *)
(* between the box coordinates and the class scores.                       *)
(*                                                                         *)
(* Tensors are records [shape, dtype, device, data]: shape is the tuple of *)
(* dimension sizes, data maps every 0-based index tuple to its element.    *)
(* A meta tensor carries the shape alone.                                  *)
(***************************************************************************)
EXTENDS Integers, Sequences, FiniteSets, TLC

VARIABLES pc, nc, model, log, x, ret, frame, out, prev

vars == <<pc, nc, model, log, x, ret, frame, out, prev>>

(* ------------------------------ bounds -------------------------------- *)

MaxBatch == 2
MaxAnchors == 2
MaxNc == 2
MaxNm == 1
MaxModules == 2
MaxChannels == 7
MaxMetaBatch == 4
MaxMaskCoeffs == 32

(* ------------------------- program constants -------------------------- *)

BoxDim == 4
NotebookNc == 80
NotebookAnchors == 8400
NotebookImgsz == 640
ImgChannels == 3
ProtoChannels == 32
ProtoSize == 160

Min(a, b) == IF a < b THEN a ELSE b

Max(a, b) == IF a < b THEN b ELSE a

(* --------------------------- torch tensors ---------------------------- *)

\* every index tuple of a tensor of the given shape (0-based, as in torch)
RECURSIVE IndexSet(_)
IndexSet(shape) ==
  IF shape = <<>> THEN {<<>>}
  ELSE LET n == Len(shape)
       IN  {Append(i, k) : i \in IndexSet(SubSeq(shape, 1, n - 1)),
                           k \in 0..(shape[n] - 1)}

\* a tensor on the meta device keeps its shape and holds no elements
OnMeta(device) == device = "meta"

\* Tensor.permute(dims), dims 0-based: result dimension d is source dims[d]
PermuteShape(shape, dims) == [d \in DOMAIN shape |-> shape[dims[d] + 1]]

\* the source index read by result index i of t.permute(dims)
PermuteIndex(i, dims) ==
  [s \in DOMAIN i |-> i[CHOOSE d \in DOMAIN i : dims[d] + 1 = s]]

\* permute raises unless dims names every dimension of t once
PermuteOk(t, dims) ==
  /\ Len(dims) = Len(t.shape)
  /\ \A s \in DOMAIN t.shape : \E d \in DOMAIN dims : dims[d] + 1 = s

Permute(t, dims) ==
  LET Src(i) == t.data[PermuteIndex(i, dims)]
  IN  [shape  |-> PermuteShape(t.shape, dims),
       dtype  |-> t.dtype,
       device |-> t.device,
       data   |-> IF OnMeta(t.device) THEN <<>>
                   ELSE [i \in IndexSet(PermuteShape(t.shape, dims)) |-> Src(i)]]

\* a slice bound clipped to 0..len, a negative bound counted from the end
AdjustIndex(i, len) == IF i < 0 THEN Max(i + len, 0) ELSE Min(i, len)

\* the source indices, in order, selected by [start:stop] on an axis of len
SliceIndices(len, start, stop) ==
  LET lo == AdjustIndex(start, len)
      hi == AdjustIndex(stop, len)
  IN  [j \in 1..Max(hi - lo, 0) |-> lo + j - 1]

\* shape of t[:, :, start:stop]
SliceShape(shape, start, stop) ==
  <<shape[1], shape[2], Len(SliceIndices(shape[3], start, stop))>>

\* t[:, :, start:stop] of a 3-d tensor
SliceLast(t, start, stop) ==
  LET idx == SliceIndices(t.shape[3], start, stop)
      Src(i) == t.data[<<i[1], i[2], idx[i[3] + 1]>>]
  IN  [shape  |-> SliceShape(t.shape, start, stop),
       dtype  |-> t.dtype,
       device |-> t.device,
       data   |-> IF OnMeta(t.device) THEN <<>>
                   ELSE [i \in IndexSet(SliceShape(t.shape, start, stop)) |-> Src(i)]]

\* torch.ones(shape, device=device, dtype=dtype)
Ones(shape, device, dtype) ==
  LET One(i) == 1
  IN  [shape  |-> shape,
       dtype  |-> dtype,
       device |-> device,
       data   |-> IF OnMeta(device) THEN <<>>
                   ELSE [i \in IndexSet(shape) |-> One(i)]]

\* torch.cat of 3-d tensors along dim 2 needs equal sizes on dims 0 and 1
CatShapeOk(shapes) ==
  \A j \in DOMAIN shapes :
     shapes[j][1] = shapes[1][1] /\ shapes[j][2] = shapes[1][2]

RECURSIVE SumLast(_)
SumLast(shapes) ==
  IF shapes = <<>> THEN 0 ELSE Head(shapes)[3] + SumLast(Tail(shapes))

\* shape of torch.cat(ts, dim=2)
CatShape(shapes) == <<shapes[1][1], shapes[1][2], SumLast(shapes)>>

\* the operand of torch.cat(ts, dim=2) that holds result channel k
RECURSIVE CatPart(_, _, _)
CatPart(shapes, k, j) ==
  IF k < shapes[j][3] THEN <<j, k>> ELSE CatPart(shapes, k - shapes[j][3], j + 1)

\* torch.cat(ts, dim=2)
Cat(ts) ==
  LET shapes == [j \in DOMAIN ts |-> ts[j].shape]
      Src(i) == LET p == CatPart(shapes, i[3], 1)
                IN  ts[p[1]].data[<<i[1], i[2], p[2]>>]
  IN  [shape  |-> CatShape(shapes),
       dtype  |-> ts[1].dtype,
       device |-> ts[1].device,
       data   |-> IF OnMeta(ts[1].device) THEN <<>>
                   ELSE [i \in IndexSet(CatShape(shapes)) |-> Src(i)]]

\* torch.cat raises on operands whose other dimensions differ and on operands
\* that live on different devices
CatOk(ts) ==
  /\ CatShapeOk([j \in DOMAIN ts |-> ts[j].shape])
  /\ \A j \in DOMAIN ts : ts[j].device = ts[1].device

(* ------------------------- WarpModel.forward -------------------------- *)

NoFrame == [kind |-> "none"]

NoInput == [kind |-> "none"]

NoCall == [kind |-> "none"]

NoModel == [kind |-> "none"]

\* mutant: the channel axis is left where the wrapped model put it
PermuteDimsKept == <<0, 1, 2>>

\* preds.permute((0, 2, 1))
PermuteDims == <<0, 2, 1>>

\* boxes = preds[:, :, :4]
boxes(preds) == SliceLast(preds, 0, BoxDim)

\* mutant: the class slice stops at nc instead of nc + 4
classesNoOffset(preds, n) == SliceLast(preds, BoxDim, n)

\* classes = preds[:, :, 4 : self.nc + 4]
classes(preds, n) == SliceLast(preds, BoxDim, n + BoxDim)

\* masks = preds[:, :, self.nc + 4 :]
masks(preds, n) == SliceLast(preds, n + BoxDim, preds.shape[3])

\* mutant: the inserted channel is filled with torch.zeros
zeros(b) ==
  LET Zero(i) == 0
  IN  [shape  |-> <<b.shape[1], b.shape[2], 1>>,
       dtype  |-> b.dtype,
       device |-> b.device,
       data   |-> IF OnMeta(b.device) THEN <<>>
                   ELSE [i \in IndexSet(<<b.shape[1], b.shape[2], 1>>) |-> Zero(i)]]

\* torch.ones((boxes.shape[0], boxes.shape[1], 1), device=..., dtype=...)
ones(b) == Ones(<<b.shape[1], b.shape[2], 1>>, b.device, b.dtype)

\* mutant: the permuted predictions are bound to protos as well
LocalsProtosRebound(preds0, protos, n) ==
  LET preds == Permute(preds0, PermuteDims)
  IN  [kind    |-> "frame",
       protos  |-> preds,
       preds   |-> preds,
       boxes   |-> boxes(preds),
       ones    |-> ones(boxes(preds)),
       classes |-> classes(preds, n),
       masks   |-> masks(preds, n)]

\* the local variables of forward once the three slices are taken
Locals(preds0, protos, n) ==
  LET preds == Permute(preds0, PermuteDims)
  IN  [kind    |-> "frame",
       protos  |-> protos,
       preds   |-> preds,
       boxes   |-> boxes(preds),
       ones    |-> ones(boxes(preds)),
       classes |-> classes(preds, n),
       masks   |-> masks(preds, n)]

\* mutant: the mask coefficients are concatenated before the class scores
CatOperandsMasksFirst(f) == <<f.boxes, f.ones, f.masks, f.classes>>

\* the operands of torch.cat, in the order of the call
CatOperands(f) == <<f.boxes, f.ones, f.classes, f.masks>>

Raise(type, at, what) ==
  [kind |-> "raise", err |-> [type |-> type, at |-> at, what |-> what]]

\* lines 88-109 of forward, from the pair the wrapped model returned:
\* the locals and the outcome (the returned pair, or the error of an operation)
Reshape(preds0, protos, n) ==
  IF ~PermuteOk(preds0, PermuteDims)
  THEN [frame |-> NoFrame,
        out   |-> Raise("RuntimeError", "permute", preds0.shape)]
  ELSE LET f == Locals(preds0, protos, n)
       IN  IF ~CatOk(CatOperands(f))
           THEN [frame |-> f,
                 out   |-> Raise("RuntimeError", "cat", f.ones.shape)]
           ELSE [frame |-> f,
                 out   |-> [kind  |-> "return",
                            value |-> <<Cat(CatOperands(f)), f.protos>>]]

(* ------------------------------ helpers ------------------------------- *)

\* row-major position of index i in a tensor of the given shape
RECURSIVE LinearIndex(_, _)
LinearIndex(i, shape) ==
  IF i = <<>> THEN 0
  ELSE LET n == Len(i)
       IN  i[n] + shape[n] * LinearIndex(SubSeq(i, 1, n - 1), SubSeq(shape, 1, n - 1))

\* a tensor whose elements are pairwise different
Tagged(shape, base) ==
  LET Tag(i) == base + LinearIndex(i, shape)
  IN  [shape  |-> shape,
       dtype  |-> "float32",
       device |-> "cpu",
       data   |-> [i \in IndexSet(shape) |-> Tag(i)]]

\* a tensor on the meta device
Meta(shape) == [shape |-> shape, dtype |-> "float32", device |-> "meta", data |-> <<>>]

\* height and width of the prototype masks of the small networks
SmallProto == <<1, 2>>

(* -------------------------- the wrapped model ------------------------ *)

ModuleTypes == {"Conv", "BatchNorm2d", "C2f", "Detect", "Segment", "RTDETRDecoder"}

\* the classes a module of the given type is an instance of (Segment extends Detect)
Bases(type) == IF type = "Segment" THEN {"Segment", "Detect"} ELSE {type}

\* isinstance(m, classes)
IsInstance(m, cls) == Bases(m.type) \cap cls # {}

Seeds == {0, 1}

Weights == {1, 2}

Image(B, ch, s) ==
  [kind |-> "input", seed |-> s, shape |-> <<B, ch, NotebookImgsz, NotebookImgsz>>]

\* the image batches forward is called with: 3 channels, or a malformed 1
Inputs ==
  {Image(B, ImgChannels, s) : B \in 1..MaxBatch, s \in Seeds}
    \cup {Image(B, 1, 0) : B \in 1..MaxBatch}

\* a module as the checkpoint holds it; only detection heads carry export flags
LoadedModule(type, rg, dyn, exp) ==
  [type          |-> type,
   requires_grad |-> rg,
   dynamic       |-> IF "Detect" \in Bases(type) \/ type = "RTDETRDecoder"
                     THEN dyn ELSE "unset",
   export        |-> IF "Detect" \in Bases(type) \/ type = "RTDETRDecoder"
                     THEN exp ELSE "unset",
   format        |-> "unset",
   forward       |-> "forward"]

\* YOLO(weights).model: the network of the checkpoint
Loaded(types, rg, dyn, exp, training, dtype, device, weights, head) ==
  [kind     |-> "model",
   modules  |-> [j \in DOMAIN types |-> LoadedModule(types[j], rg[j], dyn, exp)],
   training |-> training,
   dtype    |-> dtype,
   device   |-> device,
   weights  |-> weights,
   fused    |-> FALSE,
   head     |-> head]

\* the network raises on a batch whose channel count its first layer rejects
ModelRaises(m, xin) == xin.shape[2] # ImgChannels

\* self.model(x): the error raised, or the pair (preds, protos); a function
\* of the parameters and the batch alone
ModelCall(m, xin) ==
  IF ModelRaises(m, xin) THEN Raise("RuntimeError", "model", xin.shape)
  ELSE LET B == xin.shape[1]
           C == BoxDim + m.head.nc + m.head.nm
           pshape == <<B, C, m.head.na>>
           qshape == <<B, m.head.nm>> \o SmallProto
           P(i) == m.weights * (1 + LinearIndex(<<i[2], i[3]>>, <<C, m.head.na>>))
                     + xin.seed * (i[1] + 1)
           Q(i) == m.weights * (100 + LinearIndex(i, qshape)) + xin.seed
       IN  [kind   |-> "return",
            preds  |-> [shape |-> pshape, dtype |-> m.dtype, device |-> m.device,
                        data |-> IF OnMeta(m.device) THEN <<>>
                                 ELSE [i \in IndexSet(pshape) |-> P(i)]],
            protos |-> [shape |-> qshape, dtype |-> m.dtype, device |-> m.device,
                        data |-> IF OnMeta(m.device) THEN <<>>
                                 ELSE [i \in IndexSet(qshape) |-> Q(i)]]]

\* mutant: forward keeps its input between calls and runs the wrapped model
\* on the batch of the call before
forwardLagged(m, n, xin) ==
  LET r == ModelCall(m, IF pc = "called" THEN x ELSE xin)
  IN  IF r.kind = "raise"
      THEN [ret |-> r, frame |-> NoFrame, out |-> r]
      ELSE [ret |-> r] @@ Reshape(r.preds, r.protos, n)

\* mutant: forward catches the wrapped model's error and returns an empty pair
forwardSwallow(m, n, xin) ==
  LET r == ModelCall(m, xin)
  IN  IF r.kind = "raise"
      THEN [ret |-> r, frame |-> NoFrame,
            out |-> [kind |-> "return", value |-> <<Meta(<<0, 0, 0>>), Meta(<<0>>)>>]]
      ELSE [ret |-> r] @@ Reshape(r.preds, r.protos, n)

\* forward: line 87, then lines 88-109 unless the wrapped model raised
forward(m, n, xin) ==
  LET r == ModelCall(m, xin)
  IN  IF r.kind = "raise"
      THEN [ret |-> r, frame |-> NoFrame, out |-> r]
      ELSE [ret |-> r] @@ Reshape(r.preds, r.protos, n)

(* ------------------------- WarpModel.__init__ ------------------------- *)

\* device = torch.device('cpu')
Device == "cpu"

\* deepcopy(self.model.model).to(device)
Copy(m) == [m EXCEPT !.device = Device]

\* mutant: the loop over the parameters is missing
FreezeSkipped(m) == m

\* for p in self.model.parameters(): p.requires_grad = False
Freeze(m) ==
  [m EXCEPT !.modules = [j \in DOMAIN m.modules |->
                           [m.modules[j] EXCEPT !.requires_grad = FALSE]]]

\* self.model.eval()
Eval(m) == [m EXCEPT !.training = FALSE]

\* self.model.float()
Float(m) == [m EXCEPT !.dtype = "float32"]

IsBatchNorm(mod) == mod.type = "BatchNorm2d"

\* a Conv after fusing: fresh parameters without gradients, forward_fuse
FusedModule(mod) ==
  IF mod.type = "Conv"
  THEN [mod EXCEPT !.requires_grad = FALSE, !.forward = "forward_fuse"]
  ELSE mod

\* self.model.fuse(): batch norms folded into their convolutions
Fuse(m) ==
  LET NotBatchNorm(mod) == ~IsBatchNorm(mod)
      kept == SelectSeq(m.modules, NotBatchNorm)
  IN  [m EXCEPT !.modules = [j \in DOMAIN kept |-> FusedModule(kept[j])],
                !.fused = TRUE]

\* the body of the loop over named_modules()
SetupModule(mod) ==
  IF IsInstance(mod, {"Detect", "RTDETRDecoder"})
  THEN [mod EXCEPT !.dynamic = "False", !.export = "True", !.format = "onnx"]
  ELSE IF IsInstance(mod, {"C2f"})
       THEN [mod EXCEPT !.forward = "forward_split"]
       ELSE mod

\* for k, m in self.model.named_modules(): ...
Setup(m) ==
  [m EXCEPT !.modules = [j \in DOMAIN m.modules |-> SetupModule(m.modules[j])]]

\* mutant: the modules are set up before the model is fused
StepsSetupFirst == <<"copy", "freeze", "eval", "float", "setup", "fuse">>

\* the statements of __init__ after self.model = YOLO(weights), in order
Steps == <<"copy", "freeze", "eval", "float", "fuse", "setup">>

\* what one statement of __init__ does to self.model
Apply(step, m) ==
  CASE step = "copy"   -> Copy(m)
    [] step = "freeze" -> Freeze(m)
    [] step = "eval"   -> Eval(m)
    [] step = "float"  -> Float(m)
    [] step = "fuse"   -> Fuse(m)
    [] step = "setup"  -> Setup(m)

\* the statement that follows the Len(done) statements already run
NextStep(done) == Steps[Len(done) + 1]

BoolStr == {"False", "True"}

InitWith(archs, heads, ncs, ws) ==
  /\ pc = "init"
  /\ nc \in ncs
  /\ log = <<>>
  /\ x = NoInput
  /\ ret = NoCall
  /\ frame = NoFrame
  /\ out = NoCall
  /\ prev = NoCall
  /\ \E types \in archs, head \in heads, dyn \in BoolStr, exp \in BoolStr,
        training \in BOOLEAN, dtype \in {"float16", "float32"}, w \in ws :
       \E rg \in [DOMAIN types -> BOOLEAN] :
          model = Loaded(types, rg, dyn, exp, training, dtype, "cpu", w, head)

\* __init__ entered with any network of MaxModules modules loaded
Init ==
  InitWith([1..MaxModules -> ModuleTypes],
           {[nc |-> 1, nm |-> 1, na |-> 1]},
           {0, 1}, {1})

\* __init__ entered with a segmentation network of any head size
InitData ==
  /\ InitWith({<<"Conv", "BatchNorm2d", "C2f", "Segment">>},
              [nc : 1..MaxNc, nm : 0..MaxNm, na : 1..MaxAnchors],
              0..(MaxNc + 1), Weights)
  /\ model.dtype = "float32"
  /\ ~model.training
  /\ \A j \in DOMAIN model.modules :
        /\ model.modules[j].requires_grad
        /\ model.modules[j].dynamic \in {"unset", "False"}
        /\ model.modules[j].export \in {"unset", "False"}

\* one statement of __init__; the last one completes the construction
Construct ==
  /\ pc = "init"
  /\ LET step == NextStep(log)
     IN  /\ model' = Apply(step, model)
         /\ log' = Append(log, step)
         /\ pc' = IF Len(log) + 1 = Len(Steps) THEN "ready" ELSE "init"
  /\ UNCHANGED <<nc, x, ret, frame, out, prev>>

\* one call of forward on any batch; prev remembers some earlier call
Forward ==
  /\ pc \in {"ready", "called"}
  /\ \E xin \in Inputs :
       LET r == forward(model, nc, xin)
       IN  /\ x' = xin
           /\ ret' = r.ret
           /\ frame' = r.frame
           /\ out' = r.out
  /\ prev' \in {prev} \cup (IF pc = "called"
                            THEN {[kind |-> "call", x |-> x, out |-> out]}
                            ELSE {})
  /\ pc' = "called"
  /\ UNCHANGED <<nc, model, log>>

Next == Construct \/ Forward

Spec == Init /\ [][Next]_vars

SpecData == InitData /\ [][Next]_vars

(* ------------------- forward on given return values ------------------- *)

\* forward entered with the wrapped model's pair in hand: any channel count
InitSlices ==
  /\ pc = "returned"
  /\ nc \in 0..MaxChannels
  /\ model = NoModel
  /\ log = <<>>
  /\ x = NoInput
  /\ frame = NoFrame
  /\ out = NoCall
  /\ prev = NoCall
  /\ \E B \in 1..MaxBatch, A \in 1..MaxAnchors, C \in 0..MaxChannels :
        ret = [kind   |-> "return",
               preds  |-> Tagged(<<B, C, A>>, 2),
               protos |-> Tagged(<<B, 1>> \o SmallProto, 100)]

\* the notebook's shape check on meta tensors: (B, 3, 640, 640) in, nc = 80
InitMeta ==
  /\ pc = "returned"
  /\ nc = NotebookNc
  /\ model = NoModel
  /\ log = <<>>
  /\ frame = NoFrame
  /\ out = NoCall
  /\ prev = NoCall
  /\ \E B \in 1..MaxMetaBatch, M \in 0..MaxMaskCoeffs :
        /\ x = [kind |-> "input", seed |-> 0,
                shape |-> <<B, ImgChannels, NotebookImgsz, NotebookImgsz>>]
        /\ ret = [kind   |-> "return",
                  preds  |-> Meta(<<B, BoxDim + NotebookNc + M, NotebookAnchors>>),
                  protos |-> Meta(<<B, ProtoChannels, ProtoSize, ProtoSize>>)]

\* the rest of forward after the wrapped model returned
Reshaped ==
  /\ pc = "returned"
  /\ LET r == Reshape(ret.preds, ret.protos, nc)
     IN  /\ frame' = r.frame
         /\ out' = r.out
  /\ pc' = "called"
  /\ UNCHANGED <<nc, model, log, x, ret, prev>>

SpecSlices == InitSlices /\ [][Reshaped]_vars

SpecMeta == InitMeta /\ [][Reshaped]_vars

(* ------------------------------- claims ------------------------------- *)

\* the channels of a 3-d tensor at batch index b and anchor index a, in order
Channels(t, b, a) == [k \in 1..t.shape[3] |-> t.data[<<b, a, k - 1>>]]

Returned == pc = "called" /\ ret.kind = "return"

\* C1: for a batch of shape (B, 3, 640, 640) and nc = 80, when the wrapped
\* model returns predictions of shape (B, 84 + M, 8400) and prototypes of shape
\* (B, 32, 160, 160), forward returns detections of shape (B, 8400, 85 + M)
\* and prototypes of shape (B, 32, 160, 160), for every B >= 1.
C1_NotebookShapes ==
  pc = "called" =>
    LET B == x.shape[1]
        M == ret.preds.shape[2] - 84
    IN  /\ x.shape = <<B, 3, 640, 640>> /\ nc = 80 /\ B >= 1 /\ M >= 0
        /\ ret.preds.shape = <<B, 84 + M, 8400>>
        /\ out.kind = "return"
        /\ out.value[1].shape = <<B, 8400, 85 + M>>
        /\ out.value[2].shape = <<B, 32, 160, 160>>

\* the notebook's recorded run
C1_Witness ==
  /\ pc = "called"
  /\ x.shape = <<4, 3, 640, 640>>
  /\ out.kind = "return"
  /\ out.value[1].shape = <<4, 8400, 117>>
  /\ out.value[2].shape = <<4, 32, 160, 160>>

\* C2: for predictions P of shape (B, C, A) with C >= nc + 4 the detections D
\* have shape (B, A, C + 1) with D[b,a,k] = P[b,k,a] for k in 0..3, then the
\* inserted channel, D[b,a,5+j] = P[b,4+j,a] for j in 0..nc-1 and
\* D[b,a,5+nc+m] = P[b,4+nc+m,a] for m in 0..C-nc-5.
C2_Layout ==
  Returned /\ ret.preds.shape[2] >= nc + 4 =>
    LET P == ret.preds
        B == P.shape[1]
        C == P.shape[2]
        A == P.shape[3]
    IN  /\ out.kind = "return"
        /\ out.value[1].shape = <<B, A, C + 1>>
        /\ \A b \in 0..(B - 1), a \in 0..(A - 1) :
             LET D == out.value[1].data
             IN  /\ \A k \in 0..3 : D[<<b, a, k>>] = P.data[<<b, k, a>>]
                 /\ \A j \in 0..(nc - 1) :
                      D[<<b, a, 5 + j>>] = P.data[<<b, 4 + j, a>>]
                 /\ \A m \in 0..(C - nc - 5) :
                      D[<<b, a, 5 + nc + m>>] = P.data[<<b, 4 + nc + m, a>>]

\* a call with two images, two anchors, classes and mask coefficients
C2_Witness ==
  /\ Returned
  /\ out.kind = "return"
  /\ nc >= 1
  /\ ret.preds.shape[1] = 2
  /\ ret.preds.shape[3] = 2
  /\ ret.preds.shape[2] >= nc + 5

\* C3: the detections hold exactly one channel more than the predictions; it
\* sits at channel index 4, after the 4 box coordinates and before the class
\* scores, and is 1 at every batch and anchor index whatever the input.
C3_OnesChannel ==
  Returned =>
    LET P == ret.preds
    IN  /\ out.kind = "return"
        /\ out.value[1].shape[3] = P.shape[2] + 1
        /\ \A b \in 0..(P.shape[1] - 1), a \in 0..(P.shape[3] - 1) :
             LET D == Channels(out.value[1], b, a)
             IN  /\ D[5] = 1
                 /\ SubSeq(D, 1, 4) \o SubSeq(D, 6, Len(D))
                      = [k \in 1..P.shape[2] |-> P.data[<<b, k - 1, a>>]]

\* a call whose predictions are all different from 1
C3_Witness ==
  /\ Returned
  /\ out.kind = "return"
  /\ \A i \in DOMAIN ret.preds.data : ret.preds.data[i] # 1
  /\ out.value[1].data[<<0, 0, 4>>] = 1

\* C4: the second element of the returned pair is the prototype tensor the
\* wrapped model produced for this input, unchanged in shape, order and
\* values; the first element is not the predictions tensor as returned.
C4_ProtosUntouched ==
  Returned =>
    /\ out.kind = "return"
    /\ Len(out.value) = 2
    /\ out.value[2] = ret.protos
    /\ ret = ModelCall(model, x)
    /\ out.value[1].shape # ret.preds.shape

\* a call on two images whose prototypes have elements
C4_Witness ==
  /\ Returned
  /\ out.kind = "return"
  /\ out.value[2].shape = <<2, 1>> \o SmallProto
  /\ out.value[2].data[<<1, 0, 0, 1>>] # out.value[2].data[<<0, 0, 0, 1>>]

Built == pc \in {"ready", "called"}

\* C5: a forward call leaves the wrapper's nc and the wrapped model (its
\* parameters and its modules' export configuration) unchanged, and a call
\* returns what any earlier call with the same input returned.
C5_Stateless ==
  /\ [][Built => nc' = nc /\ model' = model]_vars
  /\ [](pc = "called" /\ prev.kind = "call" /\ prev.x = x => prev.out = out)

\* two calls with the same well-formed input
C5_Witness ==
  /\ pc = "called"
  /\ prev.kind = "call"
  /\ prev.x = x
  /\ out.kind = "return"

\* C6: when the wrapped model raises, forward raises that same error and
\* returns nothing; when it returns a pair, forward returns a pair and raises
\* nothing.
C6_Errors ==
  pc = "called" =>
    /\ ret = ModelCall(model, x)
    /\ ret.kind = "raise" => out = ret /\ frame = NoFrame
    /\ ret.kind = "return" => out.kind = "return" /\ Len(out.value) = 2

\* a call that raised after a call that returned
C6_Witness ==
  /\ pc = "called"
  /\ ret.kind = "raise"
  /\ out.kind = "raise"
  /\ prev.kind = "call"
  /\ prev.out.kind = "return"

Frozen(m) == \A j \in DOMAIN m.modules : ~m.modules[j].requires_grad

\* the parameters of a model: their values and their gradient flags
Parameters(m) ==
  [weights |-> m.weights, dtype |-> m.dtype,
   requires_grad |-> [j \in DOMAIN m.modules |-> m.modules[j].requires_grad]]

\* C7: once __init__ has completed every parameter has requires_grad = False
\* and the model is in evaluation mode, and no later step sets a flag back,
\* leaves evaluation mode or changes a parameter.
C7_Frozen ==
  /\ [](Built => Frozen(model) /\ ~model.training)
  /\ [][Built => /\ Built'
                 /\ Frozen(model')
                 /\ ~model'.training
                 /\ Parameters(model') = Parameters(model)]_vars

\* two forward calls made on the constructed wrapper
C7_Witness ==
  /\ pc = "called"
  /\ prev.kind = "call"
  /\ Frozen(model)
  /\ ~model.training
  /\ model.modules # <<>>

\* C8: __init__ runs copy, freeze, eval, float, fuse and the per-module setup
\* in this order, and after it every module of the fused model that is a
\* Detect (Segment included) or an RTDETRDecoder has dynamic = False,
\* export = True, format = "onnx", every C2f has forward = forward_split, and
\* every other module has neither.
C8_InitOrder ==
  /\ log = SubSeq(<<"copy", "freeze", "eval", "float", "fuse", "setup">>, 1, Len(log))
  /\ pc = "init" => Len(log) < 6
  /\ Built =>
       /\ Len(log) = 6
       /\ model.fused
       /\ model.device = "cpu" /\ model.dtype = "float32"
       /\ \A j \in DOMAIN model.modules :
            LET mod == model.modules[j]
            IN  /\ mod.type # "BatchNorm2d"
                /\ mod.type \in {"Detect", "Segment", "RTDETRDecoder"} =>
                     /\ mod.dynamic = "False"
                     /\ mod.export = "True"
                     /\ mod.format = "onnx"
                     /\ mod.forward = "forward"
                /\ mod.type = "C2f" =>
                     /\ mod.forward = "forward_split"
                     /\ mod.export = "unset"
                /\ mod.type \notin {"Detect", "Segment", "RTDETRDecoder", "C2f"} =>
                     /\ mod.dynamic = "unset"
                     /\ mod.export = "unset"
                     /\ mod.format = "unset"
                     /\ mod.forward # "forward_split"

\* a constructed wrapper around a C2f block and a Segment head
C8_Witness ==
  /\ pc = "ready"
  /\ \E i, j \in DOMAIN model.modules :
       /\ model.modules[i].type = "C2f"
       /\ model.modules[i].forward = "forward_split"
       /\ model.modules[j].type = "Segment"
       /\ model.modules[j].export = "True"

\* C9: for every nc >= 0 and every channel count C >= 0 the slices [0,4),
\* [4,nc+4) and [nc+4,C) are pairwise disjoint and together hold every input
\* channel once, in the original order; the detections have C + 1 channels;
\* with C < nc + 4 nothing is raised, the class group is cut off at the last
\* channel (Max(C - 4, 0) channels, fewer than nc when there are classes) and
\* the mask group is empty.
C9_SlicesPartition ==
  pc = "called" =>
    LET P == ret.preds
        C == P.shape[2]
        Set(q) == {q[k] : k \in DOMAIN q}
    IN  /\ nc >= 0 /\ C >= 0
        /\ out.kind = "return"
        /\ out.value[1].shape = <<P.shape[1], P.shape[3], C + 1>>
        /\ \A b \in 0..(P.shape[1] - 1), a \in 0..(P.shape[3] - 1) :
             LET bx == Channels(frame.boxes, b, a)
                 cl == Channels(frame.classes, b, a)
                 mk == Channels(frame.masks, b, a)
             IN  /\ bx \o cl \o mk = [k \in 1..C |-> P.data[<<b, k - 1, a>>]]
                 /\ Set(bx) \cap Set(cl) = {}
                 /\ Set(bx) \cap Set(mk) = {}
                 /\ Set(cl) \cap Set(mk) = {}
        /\ C < nc + 4 =>
             /\ frame.masks.shape[3] = 0
             /\ frame.classes.shape[3] = Max(C - 4, 0)
             /\ nc > 0 => frame.classes.shape[3] < nc

\* a channel count that is too small for nc and still has class channels
C9_Witness ==
  /\ pc = "called"
  /\ out.kind = "return"
  /\ ret.preds.shape[2] < nc + 4
  /\ ret.preds.shape[2] > 4
  /\ frame.classes.shape[3] >= 1

====
